---- MODULE Spec2Model ----
(***************************************************************************)
(* Model of the MIDAS k-mer core: the Jaccard similarity kernel            *)
(* (midas/cython/metrics.pyx), its parallel batch variant, and the k-mer   *)
(* / nucleotide codec (kmers.pyx / seqs.pyx).                              *)
(*                                                                         *)
(* Arrays are 0-based in the source and 1-based here: the source's         *)
(* coords1[i] is coords1[i + 1] below; cursors keep the source's values.   *)
(* A score (float32 quotient of two small integers) is modelled by the     *)
(* reduced fraction <<num, den>> it is the rounding of.                    *)
(***************************************************************************)
EXTENDS Integers, Sequences, FiniteSets, TLC

\* ------------------------------------------------------------------ bounds
MaxCoord == 7          \* coordinates of the pairwise kernel are 0..MaxCoord
MaxLen == 3            \* longest signature given to the pairwise kernel
BatchMaxCoord == 1     \* coordinates of the batch inputs are 0..BatchMaxCoord
MaxMembers == 2        \* most members in a reference collection
NumWorkers == 2        \* threads of the parallel region

\* ----------------------------------------------------------------- helpers
IsStrictlyIncreasing(s) == \A p \in 1..(Len(s) - 1) : s[p] < s[p + 1]

Signatures(maxc, maxlen) ==
  {s \in UNION {[1..n -> 0..maxc] : n \in 0..maxlen} : IsStrictlyIncreasing(s)}

Range(s) == {s[p] : p \in 1..Len(s)}

Abs(n) == IF n < 0 THEN 0 - n ELSE n

RECURSIVE GCD(_, _)
GCD(a, b) == IF b = 0 THEN a ELSE GCD(b, a % b)

\* The value of the float32 quotient n / d, d # 0, as a reduced fraction.
Quotient(n, d) ==
  LET g == GCD(Abs(n), Abs(d)) IN <<n \div g, d \div g>>

ZeroScore == <<0, 1>>          \* the literal 0 returned as a SCORE_T
ZeroDivision == <<0, 0>>       \* outcome of a division whose divisor is 0
Unwritten == <<-1, -1>>        \* an output slot np.ndarray left uninitialised
NoIndex == <<>>                \* no index was returned
NoBytes == <<-1>>              \* no bytes object was returned

\* -------------------------------------------------------- c_jaccard_coords
Cursor0 == [i |-> 0, j |-> 0, u |-> 0]

LoopCond(c1, c2, st) == st.i < Len(c1) /\ st.j < Len(c2)

AdvanceI(a, b) == a <= b

AdvanceJ_Strict(a, b) == b < a

AdvanceJ(a, b) == b <= a

LoopBody_Stall(c1, c2, st) ==
  LET a == c1[st.i + 1]
      b == c2[st.j + 1]
  IN [i |-> IF a < b THEN st.i + 1 ELSE st.i,
      j |-> IF b < a THEN st.j + 1 ELSE st.j,
      u |-> st.u + 1]

LoopBody(c1, c2, st) ==
  LET a == c1[st.i + 1]
      b == c2[st.j + 1]
  IN [i |-> IF AdvanceI(a, b) THEN st.i + 1 ELSE st.i,
      j |-> IF AdvanceJ(a, b) THEN st.j + 1 ELSE st.j,
      u |-> st.u + 1]

RECURSIVE MergeLoop(_, _, _)
MergeLoop(c1, c2, st) ==
  IF LoopCond(c1, c2, st) THEN MergeLoop(c1, c2, LoopBody(c1, c2, st)) ELSE st

Remainder_NoFirst(c1, c2, st) ==
  [st EXCEPT !.u = st.u + (Len(c2) - st.j)]

Remainder_NoSecond(c1, c2, st) ==
  [st EXCEPT !.u = st.u + (Len(c1) - st.i)]

Remainder(c1, c2, st) ==
  [st EXCEPT !.u = (st.u + (Len(c1) - st.i)) + (Len(c2) - st.j)]

\* Cython's checked division: a zero divisor raises ZeroDivisionError.
Divide(n, d) == IF d = 0 THEN ZeroDivision ELSE Quotient(n, d)

ScoreOf_NoGuard(N, M, u) == Divide((N + M) - u, u)

ScoreOf(N, M, u) == IF u = 0 THEN ZeroScore ELSE Divide((N + M) - u, u)

c_jaccard_coords(c1, c2) ==
  LET st == Remainder(c1, c2, MergeLoop(c1, c2, Cursor0))
  IN ScoreOf(Len(c1), Len(c2), st.u)

\* ------------------------------------------------------------------- state
VARIABLES
  op,          \* which entry point was called: "jaccard" or "batch"
  pc,          \* position of the calling thread
  coords1, coords2,   \* arguments of jaccard_coords
  cur,         \* the cursors i, j and the union counter u
  score,       \* return value of jaccard_coords
  dtype1, dtype2,     \* element types of the two coordinate arrays
  query, ref_coords, ref_bounds,   \* arguments of jaccard_coords_col
  out,         \* the output array, slot i at out[i + 1]
  todo,        \* iterations of the prange not yet handed to a thread
  wpc, wi, begin, end,  \* per thread: position and its private i, begin, end
  arg_bytes,   \* bytes argument of kmer_to_index / reverse_complement
  arg_index, arg_k,   \* arguments of index_to_kmer
  res_bytes,   \* last bytes object returned by the codec
  res_index,   \* last index returned by kmer_to_index
  exc,         \* <<v>> once ValueError(v) was raised, else <<>>
  cls,         \* the classifier: its inputs, locals and outcome
  kspec        \* a CKmerSpec object and the last attribute read from it

jvars == <<coords1, coords2, cur, score, dtype1, dtype2>>
bvars == <<query, ref_coords, ref_bounds, out, todo, wpc, wi, begin, end>>
xvars == <<cls, kspec>>
cvars == <<arg_bytes, arg_index, arg_k, res_bytes, res_index, exc, cls, kspec>>
vars == <<op, pc, coords1, coords2, cur, score, dtype1, dtype2,
          query, ref_coords, ref_bounds, out, todo, wpc, wi, begin, end,
          arg_bytes, arg_index, arg_k, res_bytes, res_index, exc, cls, kspec>>

Workers == 1..NumWorkers

\* A reference collection: member signatures concatenated, with the bounds.
RECURSIVE Concat(_)
Concat(ms) == IF ms = <<>> THEN <<>> ELSE Head(ms) \o Concat(Tail(ms))

RECURSIVE BoundsOf(_, _)
BoundsOf(ms, at) ==
  IF ms = <<>> THEN <<at>> ELSE <<at>> \o BoundsOf(Tail(ms), at + Len(Head(ms)))

Collections ==
  UNION {[1..n -> Signatures(BatchMaxCoord, BatchMaxCoord + 1)] : n \in 0..MaxMembers}

NoBatch ==
  /\ query = <<>> /\ ref_coords = <<>> /\ ref_bounds = <<>>
  /\ out = <<>> /\ todo = {}
  /\ wpc = [w \in Workers |-> "idle"]
  /\ wi = [w \in Workers |-> 0]
  /\ begin = [w \in Workers |-> 0]
  /\ end = [w \in Workers |-> 0]

NoJaccard ==
  /\ coords1 = <<>> /\ coords2 = <<>> /\ cur = Cursor0 /\ score = Unwritten
  /\ dtype1 = "uint32" /\ dtype2 = "uint32"

NoBytesCall ==
  /\ arg_bytes = <<>> /\ arg_index = NoIndex /\ arg_k = 0
  /\ res_bytes = NoBytes /\ res_index = NoIndex /\ exc = <<>>

NoCodec ==
  /\ NoBytesCall
  /\ cls = <<>>
  /\ kspec = <<>>

InitJaccard ==
  /\ op = "jaccard"
  /\ pc = "loop"
  /\ coords1 \in Signatures(MaxCoord, MaxLen)
  /\ coords2 \in Signatures(MaxCoord, MaxLen)
  /\ cur = Cursor0
  /\ score = Unwritten
  /\ dtype1 = "uint32" /\ dtype2 = "uint32"
  /\ NoBatch
  /\ NoCodec

InitBatch ==
  /\ op = "batch"
  /\ pc = "call"
  /\ NoJaccard
  /\ NoCodec
  /\ query \in Signatures(BatchMaxCoord, BatchMaxCoord + 1)
  /\ \E ms \in Collections :
       /\ ref_coords = Concat(ms)
       /\ ref_bounds = BoundsOf(ms, 0)
  /\ out = <<>> /\ todo = {}
  /\ wpc = [w \in Workers |-> "idle"]
  /\ wi = [w \in Workers |-> 0]
  /\ begin = [w \in Workers |-> 0]
  /\ end = [w \in Workers |-> 0]

Init == InitJaccard \/ InitBatch

\* ------------------------------------------------- jaccard_coords, by step
MergeStep ==
  /\ op = "jaccard" /\ pc = "loop"
  /\ LoopCond(coords1, coords2, cur)
  /\ cur' = LoopBody(coords1, coords2, cur)
  /\ UNCHANGED <<op, pc, coords1, coords2, score, dtype1, dtype2>>
  /\ UNCHANGED bvars
  /\ UNCHANGED cvars

MergeExit ==
  /\ op = "jaccard" /\ pc = "loop"
  /\ ~LoopCond(coords1, coords2, cur)
  /\ cur' = Remainder(coords1, coords2, cur)
  /\ pc' = "ret"
  /\ UNCHANGED <<op, coords1, coords2, score, dtype1, dtype2>>
  /\ UNCHANGED bvars
  /\ UNCHANGED cvars

JaccardReturn ==
  /\ op = "jaccard" /\ pc = "ret"
  /\ score' = ScoreOf(Len(coords1), Len(coords2), cur.u)
  /\ pc' = "done"
  /\ UNCHANGED <<op, coords1, coords2, cur, dtype1, dtype2>>
  /\ UNCHANGED bvars
  /\ UNCHANGED cvars

\* ------------------------------------------------------ jaccard_coords_col
Slice(s, b, e) == SubSeq(s, b + 1, e)

BatchCall ==
  /\ op = "batch" /\ pc = "call"
  /\ out' = [p \in 1..(Len(ref_bounds) - 1) |-> Unwritten]
  /\ todo' = 0..(Len(ref_bounds) - 2)
  /\ pc' = "parallel"
  /\ UNCHANGED <<op, query, ref_coords, ref_bounds, wpc, wi, begin, end>>
  /\ UNCHANGED jvars
  /\ UNCHANGED cvars

Claim_NoRemove(w) ==
  /\ op = "batch" /\ pc = "parallel"
  /\ wpc[w] = "idle"
  /\ \E it \in todo :
       /\ wi' = [wi EXCEPT ![w] = it]
       /\ todo' = todo
  /\ wpc' = [wpc EXCEPT ![w] = "bounds"]
  /\ UNCHANGED <<op, pc, query, ref_coords, ref_bounds, out, begin, end>>
  /\ UNCHANGED jvars
  /\ UNCHANGED cvars

\* prange(N, schedule='dynamic'): an idle thread takes an iteration nobody
\* has taken yet.
Claim(w) ==
  /\ op = "batch" /\ pc = "parallel"
  /\ wpc[w] = "idle"
  /\ \E it \in todo :
       /\ wi' = [wi EXCEPT ![w] = it]
       /\ todo' = todo \ {it}
  /\ wpc' = [wpc EXCEPT ![w] = "bounds"]
  /\ UNCHANGED <<op, pc, query, ref_coords, ref_bounds, out, begin, end>>
  /\ UNCHANGED jvars
  /\ UNCHANGED cvars

ReadBounds_Shared(w) ==
  /\ op = "batch" /\ pc = "parallel"
  /\ wpc[w] = "bounds"
  /\ begin' = [v \in Workers |-> ref_bounds[wi[w] + 1]]
  /\ end' = [v \in Workers |-> ref_bounds[wi[w] + 2]]
  /\ wpc' = [wpc EXCEPT ![w] = "score"]
  /\ UNCHANGED <<op, pc, query, ref_coords, ref_bounds, out, todo, wi>>
  /\ UNCHANGED jvars
  /\ UNCHANGED cvars

\* begin = ref_bounds[i]; end = ref_bounds[i+1]: two reads of an array no
\* thread writes, into variables private to the thread.
ReadBounds(w) ==
  /\ op = "batch" /\ pc = "parallel"
  /\ wpc[w] = "bounds"
  /\ begin' = [begin EXCEPT ![w] = ref_bounds[wi[w] + 1]]
  /\ end' = [end EXCEPT ![w] = ref_bounds[wi[w] + 2]]
  /\ wpc' = [wpc EXCEPT ![w] = "score"]
  /\ UNCHANGED <<op, pc, query, ref_coords, ref_bounds, out, todo, wi>>
  /\ UNCHANGED jvars
  /\ UNCHANGED cvars

OutSlot(i) == i + 1

WriteScore(w) ==
  /\ op = "batch" /\ pc = "parallel"
  /\ wpc[w] = "score"
  /\ out' = [out EXCEPT ![OutSlot(wi[w])] =
               c_jaccard_coords(query, Slice(ref_coords, begin[w], end[w]))]
  /\ wpc' = [wpc EXCEPT ![w] = "idle"]
  /\ UNCHANGED <<op, pc, query, ref_coords, ref_bounds, todo, wi, begin, end>>
  /\ UNCHANGED jvars
  /\ UNCHANGED cvars

BatchReturn ==
  /\ op = "batch" /\ pc = "parallel"
  /\ todo = {}
  /\ \A w \in Workers : wpc[w] = "idle"
  /\ pc' = "done"
  /\ UNCHANGED <<op, query, ref_coords, ref_bounds, out, todo, wpc, wi, begin, end>>
  /\ UNCHANGED jvars
  /\ UNCHANGED cvars

Next ==
  \/ MergeStep
  \/ MergeExit
  \/ JaccardReturn
  \/ BatchCall
  \/ \E w \in Workers : Claim(w)
  \/ \E w \in Workers : ReadBounds(w)
  \/ \E w \in Workers : WriteScore(w)
  \/ BatchReturn

Spec == Init /\ [][Next]_vars

\* The calling thread and every thread of the parallel block are operating
\* system threads: each keeps executing while it has a next instruction.
\* There is no lock, wait or cancellation point in the nogil section.
CallerStep == MergeStep \/ MergeExit \/ JaccardReturn \/ BatchCall \/ BatchReturn

WorkerStep(w) == Claim(w) \/ ReadBounds(w) \/ WriteScore(w)

\* Inputs of the calls followed step by step, thread by thread, to their return.
LiveMaxCoord == 3      \* largest coordinate of a two-array call
LiveMaxLen == 3        \* longest array of a two-array call
LiveMaxMembers == 2    \* most members of a collection

LiveMembers == {<<>>, <<0>>, <<0, 1>>}

LiveCollections == UNION {[1..n -> LiveMembers] : n \in 0..LiveMaxMembers}

InitLive ==
  \/ /\ op = "jaccard"
     /\ pc = "loop"
     /\ coords1 \in Signatures(LiveMaxCoord, LiveMaxLen)
     /\ coords2 \in Signatures(LiveMaxCoord, LiveMaxLen)
     /\ cur = Cursor0
     /\ score = Unwritten
     /\ dtype1 = "uint32" /\ dtype2 = "uint32"
     /\ NoBatch
     /\ NoCodec
  \/ /\ op = "batch"
     /\ pc = "call"
     /\ NoJaccard
     /\ NoCodec
     /\ query \in LiveMembers
     /\ \E ms \in LiveCollections :
          /\ ref_coords = Concat(ms)
          /\ ref_bounds = BoundsOf(ms, 0)
     /\ out = <<>> /\ todo = {}
     /\ wpc = [w \in Workers |-> "idle"]
     /\ wi = [w \in Workers |-> 0]
     /\ begin = [w \in Workers |-> 0]
     /\ end = [w \in Workers |-> 0]

SpecLive == InitLive /\ [][Next]_vars

FairSpec == SpecLive /\ WF_vars(CallerStep) /\ \A w \in Workers : WF_vars(WorkerStep(w))

\* ------------------------------------- jaccard_coords: fused-type dispatch
\* The members of the fused types of the two array arguments.
COORDS_T == {"int16", "uint16", "int32", "uint32", "int64", "uint64"}

COORDS_T_2 == {"int16", "uint16", "int32", "uint32", "int64", "uint64"}

\* Element types of the arrays a caller may pass.
ArrayTypes == COORDS_T \cup COORDS_T_2 \cup {"float64"}

InitTyped ==
  /\ op = "jaccard"
  /\ pc = "dispatch"
  /\ coords1 \in Signatures(BatchMaxCoord, BatchMaxCoord + 1)
  /\ coords2 \in Signatures(BatchMaxCoord, BatchMaxCoord + 1)
  /\ cur = Cursor0
  /\ score = Unwritten
  /\ dtype1 \in ArrayTypes
  /\ dtype2 \in ArrayTypes
  /\ NoBatch
  /\ NoCodec

\* The call enters the specialisation for (dtype1, dtype2) when each type
\* is a member of its argument's fused type; no other test is made.
JaccardDispatch ==
  /\ op = "jaccard" /\ pc = "dispatch"
  /\ pc' = IF dtype1 \in COORDS_T /\ dtype2 \in COORDS_T_2
           THEN "loop"
           ELSE "typeerror"
  /\ UNCHANGED <<op, coords1, coords2, cur, score, dtype1, dtype2>>
  /\ UNCHANGED bvars
  /\ UNCHANGED cvars

NextTyped ==
  \/ JaccardDispatch
  \/ MergeStep
  \/ MergeExit
  \/ JaccardReturn

SpecTyped == InitTyped /\ [][NextTyped]_vars

\* ----------------------------------------------------- coords_t (uint32)
\* A coords_t value is held as its two 16-bit halves <<hi, lo>>, so that
\* the arithmetic below is exact 32-bit unsigned arithmetic.
HalfMod == 65536

Zero32 == <<0, 0>>

\* idx <<= 2
Shl2(x) ==
  <<((x[1] * 4) + (x[2] \div (HalfMod \div 4))) % HalfMod, (x[2] * 4) % HalfMod>>

\* idx += c, for a small c
Add32(x, c) ==
  LET lo == x[2] + c
  IN <<(x[1] + (lo \div HalfMod)) % HalfMod, lo % HalfMod>>

\* index % 4
Mod4(x) == x[2] % 4

\* index / 4
Div4(x) == <<x[1] \div 4, ((x[1] % 4) * (HalfMod \div 4)) + (x[2] \div 4)>>

\* ------------------------------------------------------------ byte values
\* Bytes are 0..255; 'A' = 65, 'C' = 67, 'G' = 71, 'T' = 84, 'a' = 97,
\* 'c' = 99, 'g' = 103, 't' = 116, 'N' = 78, 'n' = 110.
Bytes == 0..255

\* A buffer returned by malloc: n cells of unspecified content.
Garbage == -1

Malloc(n) == [p \in 1..n |-> Garbage]

\* <bytes>buf on a char*: the bytes before the first NUL.
BytesFromCString(buf) ==
  LET nul == CHOOSE p \in 1..Len(buf) :
               buf[p] = 0 /\ \A q \in 1..(p - 1) : buf[q] # 0
  IN SubSeq(buf, 1, nul - 1)

\* The Python int made from a C char holding byte b; the sign of char is
\* the platform's.
CharValue(b, signed) == IF signed /\ b >= 128 THEN b - 256 ELSE b

\* ------------------------------------------------------- c_kmer_to_index
\* kmer[i] & 0b11011111
ToUpper_Identity(b) == b

ToUpper(b) == IF (b \div 32) % 2 = 1 THEN b - 32 ELSE b

NucCode_Lenient(c) ==
  CASE c = 65 -> 0 [] c = 67 -> 1 [] c = 71 -> 2 [] c = 84 -> 3 [] OTHER -> 0

\* The if / elif chain; -1 stands for the else branch.
NucCode(c) ==
  CASE c = 65 -> 0 [] c = 67 -> 1 [] c = 71 -> 2 [] c = 84 -> 3 [] OTHER -> -1

RECURSIVE KmerLoop(_, _, _, _)
KmerLoop(kmer, k, i, idx) ==
  IF i >= k
  THEN [raised |-> FALSE, idx |-> idx, byte |-> 0]
  ELSE LET code == NucCode(ToUpper(kmer[i + 1]))
       IN IF code < 0
          THEN [raised |-> TRUE, idx |-> NoIndex, byte |-> kmer[i + 1]]
          ELSE KmerLoop(kmer, k, i + 1, Add32(Shl2(idx), code))

c_kmer_to_index(kmer, k) == KmerLoop(kmer, k, 0, Zero32)

\* ------------------------------------------------------- c_index_to_kmer
NucChar(n) == CASE n = 0 -> 65 [] n = 1 -> 67 [] n = 2 -> 71 [] OTHER -> 84

OutPos_Forward(k, i) == i

OutPos(k, i) == (k - i) - 1

RECURSIVE IndexLoop(_, _, _, _)
IndexLoop(index, k, i, buf) ==
  IF i >= k
  THEN buf
  ELSE IndexLoop(Div4(index), k, i + 1,
                 [buf EXCEPT ![OutPos(k, i) + 1] = NucChar(Mod4(index))])

c_index_to_kmer(index, k, buf) == IndexLoop(index, k, 0, buf)

index_to_kmer(index, k) ==
  LET buf == c_index_to_kmer(index, k, Malloc(k + 1))
  IN BytesFromCString([buf EXCEPT ![k + 1] = 0])

\* -------------------------------------------------- c_reverse_complement
nuc_complement(nuc) ==
  CASE nuc = 65 -> 84
    [] nuc = 97 -> 116
    [] nuc = 84 -> 65
    [] nuc = 116 -> 97
    [] nuc = 71 -> 67
    [] nuc = 103 -> 99
    [] nuc = 67 -> 71
    [] nuc = 99 -> 103
    [] OTHER -> nuc

RECURSIVE RevLoop(_, _, _, _)
RevLoop(seq, l, i, buf) ==
  IF i >= l
  THEN buf
  ELSE RevLoop(seq, l, i + 1,
               [buf EXCEPT ![((l - i) - 1) + 1] = nuc_complement(seq[i + 1])])

c_reverse_complement(seq, l, buf) == RevLoop(seq, l, 0, buf)

reverse_complement(seq) ==
  LET l == Len(seq)
      buf == c_reverse_complement(seq, l, Malloc(l + 1))
  IN BytesFromCString([buf EXCEPT ![l + 1] = 0])

\* ------------------------------------------------------- codec: inputs
MaxKmerLen == 3        \* longest byte string enumerated over Alphabet
MaxSmallK == 3         \* every index below 4^k is enumerated for k up to this
CoordsMaxK == 16       \* largest k whose indices fit a 32-bit coords_t

Valid8 == {65, 67, 71, 84, 97, 99, 103, 116}

\* valid codes, 'N', 'n', NUL and a byte with the high bit set ('A' + 128)
Alphabet == Valid8 \cup {78, 110, 0, 193}

ByteStrings(alpha, maxlen) == UNION {[1..n -> alpha] : n \in 0..maxlen}

Examples ==
  { <<65, 67, 71, 78>>,                                   \* "ACGN"
    <<97, 99, 103, 116>>,                                 \* "acgt"
    <<65, 67, 71, 84>>,                                   \* "ACGT"
    [p \in 1..CoordsMaxK |-> 84],                         \* "TTTT...T"
    [p \in 1..CoordsMaxK |-> IF p = 1 THEN 71 ELSE 65],   \* "GAAA...A"
    [p \in 1..CoordsMaxK |-> IF p = 1 THEN 99 ELSE 116],  \* "cttt...t"
    [p \in 1..CoordsMaxK |-> <<97, 67, 103, 84>>[((p - 1) % 4) + 1]],
    [p \in 1..(CoordsMaxK + 1) |-> IF p = 1 THEN 84 ELSE 65] }

BytesInputs ==
  ByteStrings(Alphabet, MaxKmerLen) \cup {<<b>> : b \in Bytes} \cup Examples

EdgeHalves == {0, 1, 3, 27, 6939, 32768, 65535}

IndexInputs ==
  {[index |-> <<0, lo>>, k |-> k] : k \in 1..MaxSmallK, lo \in 0..(4^MaxSmallK + 3)}
    \cup {[index |-> <<hi, lo>>, k |-> CoordsMaxK] : hi \in EdgeHalves, lo \in EdgeHalves}

InitCodec ==
  /\ pc = "call"
  /\ NoJaccard
  /\ NoBatch
  /\ res_bytes = NoBytes /\ res_index = NoIndex /\ exc = <<>>
  /\ cls = <<>>
  /\ kspec = <<>>
  /\ \/ /\ op \in {"kmer_to_index", "reverse_complement"}
        /\ arg_bytes \in BytesInputs
        /\ arg_index = NoIndex /\ arg_k = 0
     \/ /\ op = "index_to_kmer"
        /\ arg_bytes = <<>>
        /\ \E a \in IndexInputs : arg_index = a.index /\ arg_k = a.k

\* ------------------------------------------------------ codec: operations
\* Each entry point is called on the argument, and the inverse (for
\* reverse_complement, the function itself) is then called on its result.
AfterCall == IF pc = "call" THEN "returned" ELSE "round"

CallKmerToIndex ==
  /\ \/ op = "kmer_to_index" /\ pc = "call"
     \/ op = "index_to_kmer" /\ pc = "returned"
  /\ LET kmer == IF pc = "call" THEN arg_bytes ELSE res_bytes
         r == c_kmer_to_index(kmer, Len(kmer))
     IN IF r.raised
        THEN /\ \E signed \in BOOLEAN : exc' = <<CharValue(r.byte, signed)>>
             /\ pc' = "raised"
             /\ UNCHANGED res_index
        ELSE /\ res_index' = r.idx
             /\ pc' = AfterCall
             /\ UNCHANGED exc
  /\ UNCHANGED <<op, arg_bytes, arg_index, arg_k, res_bytes>>
  /\ UNCHANGED jvars
  /\ UNCHANGED bvars
  /\ UNCHANGED xvars

CallIndexToKmer ==
  /\ \/ op = "index_to_kmer" /\ pc = "call"
     \/ op = "kmer_to_index" /\ pc = "returned"
  /\ res_bytes' = IF pc = "call"
                  THEN index_to_kmer(arg_index, arg_k)
                  ELSE index_to_kmer(res_index, Len(arg_bytes))
  /\ pc' = AfterCall
  /\ UNCHANGED <<op, arg_bytes, arg_index, arg_k, res_index, exc>>
  /\ UNCHANGED jvars
  /\ UNCHANGED bvars
  /\ UNCHANGED xvars

CallReverseComplement ==
  /\ op = "reverse_complement"
  /\ pc \in {"call", "returned"}
  /\ res_bytes' = reverse_complement(IF pc = "call" THEN arg_bytes ELSE res_bytes)
  /\ pc' = AfterCall
  /\ UNCHANGED <<op, arg_bytes, arg_index, arg_k, res_index, exc>>
  /\ UNCHANGED jvars
  /\ UNCHANGED bvars
  /\ UNCHANGED xvars

NextCodec ==
  \/ CallKmerToIndex
  \/ CallIndexToKmer
  \/ CallReverseComplement

SpecCodec == InitCodec /\ [][NextCodec]_vars

\* ------------------------------------------------------------- classifier
\* midas.classify: nearest neighbour with a per-taxon cutoff.  Its inputs are
\* the scores of the reference members (jaccard_coords_col's result), the
\* (genus, species) of each member and the two threshold dictionaries.
ClsMaxMembers == 2     \* most reference members given to the classifier

ScoreValues == {<<0, 1>>, <<1, 2>>, <<1, 1>>}

Taxa == {<<"A", "x">>, <<"A", "y">>, <<"B", "x">>}

Genera == {t[1] : t \in Taxa}

Absent == <<>>                 \* the key is not in the dictionary

SpeciesTables == [Taxa -> {Absent, <<1, 2>>, <<1, 1>>}]

GenusTables == [Genera -> {Absent, <<1, 2>>}]

NoThreshold == [level |-> "none", value |-> Absent]

NoOutcome == [kind |-> "none", level |-> "none", score |-> Absent, identity |-> Absent]

ScoreLess(a, b) == a[1] * b[2] < b[1] * a[2]

IsBetter_OrEqual(cand, best) == ~ScoreLess(cand, best)

\* A later member replaces the best one only with a strictly larger score.
IsBetter(cand, best) == ScoreLess(best, cand)

RECURSIVE ScanBest(_, _, _)
ScanBest(scores, i, best) ==
  IF i > Len(scores)
  THEN best
  ELSE ScanBest(scores, i + 1, IF IsBetter(scores[i], scores[best]) THEN i ELSE best)

NearestNeighbor(scores) == ScanBest(scores, 2, 1)

SelectThreshold(taxon, species_thr, genus_thr) ==
  IF species_thr[taxon] # Absent
  THEN [level |-> "species", value |-> species_thr[taxon]]
  ELSE IF genus_thr[taxon[1]] # Absent
       THEN [level |-> "genus", value |-> genus_thr[taxon[1]]]
       ELSE NoThreshold

Decide(best_score, taxon, thr) ==
  IF thr.level = "none"
  THEN [kind |-> "NoThresholdAvailable", level |-> "none",
        score |-> Absent, identity |-> Absent]
  ELSE IF ~ScoreLess(best_score, thr.value)
       THEN [kind |-> "call", level |-> thr.level,
             score |-> best_score, identity |-> taxon]
       ELSE [kind |-> "NoConfidentCall", level |-> "none",
             score |-> Absent, identity |-> Absent]

InitClassify ==
  /\ op = "classify"
  /\ pc = "nearest"
  /\ NoJaccard
  /\ NoBatch
  /\ NoBytesCall
  /\ kspec = <<>>
  /\ \E n \in 1..ClsMaxMembers :
       \E sc \in [1..n -> ScoreValues], tx \in [1..n -> Taxa],
          st \in SpeciesTables, gt \in GenusTables :
         cls = [scores |-> sc, taxa |-> tx, species_thr |-> st, genus_thr |-> gt,
                best |-> 0, thr |-> NoThreshold, outcome |-> NoOutcome,
                first |-> NoOutcome, calls |-> 1]

ClassifyNearest ==
  /\ op = "classify" /\ pc = "nearest"
  /\ cls' = [cls EXCEPT !.best = NearestNeighbor(cls.scores)]
  /\ pc' = "threshold"
  /\ UNCHANGED <<op, kspec, arg_bytes, arg_index, arg_k, res_bytes, res_index, exc>>
  /\ UNCHANGED jvars
  /\ UNCHANGED bvars

ClassifyThreshold ==
  /\ op = "classify" /\ pc = "threshold"
  /\ cls' = [cls EXCEPT !.thr = SelectThreshold(cls.taxa[cls.best],
                                                cls.species_thr, cls.genus_thr)]
  /\ pc' = "decide"
  /\ UNCHANGED <<op, kspec, arg_bytes, arg_index, arg_k, res_bytes, res_index, exc>>
  /\ UNCHANGED jvars
  /\ UNCHANGED bvars

ClassifyDecide ==
  /\ op = "classify" /\ pc = "decide"
  /\ cls' = [cls EXCEPT !.outcome = Decide(cls.scores[cls.best],
                                           cls.taxa[cls.best], cls.thr)]
  /\ pc' = "done"
  /\ UNCHANGED <<op, kspec, arg_bytes, arg_index, arg_k, res_bytes, res_index, exc>>
  /\ UNCHANGED jvars
  /\ UNCHANGED bvars

\* The same inputs are classified a second time; nothing but the inputs is
\* carried over (the first outcome is kept aside for comparison only).
ClassifyAgain ==
  /\ op = "classify" /\ pc = "done"
  /\ cls.calls = 1
  /\ cls' = [cls EXCEPT !.best = 0, !.thr = NoThreshold, !.outcome = NoOutcome,
                        !.first = cls.outcome, !.calls = 2]
  /\ pc' = "nearest"
  /\ UNCHANGED <<op, kspec, arg_bytes, arg_index, arg_k, res_bytes, res_index, exc>>
  /\ UNCHANGED jvars
  /\ UNCHANGED bvars

NextClassify ==
  \/ ClassifyNearest
  \/ ClassifyThreshold
  \/ ClassifyDecide
  \/ ClassifyAgain

SpecClassify == InitClassify /\ [][NextClassify]_vars

\* --------------------------------------------------------------- CKmerSpec
MaxPrefixLen == 2      \* longest prefix given to the constructor
IntBits == 32          \* width of a C int

PrefixInputs == ByteStrings({65, 67, 71, 84}, MaxPrefixLen)

\* a non-negative value below 2^31 as an np.intp_t, in two parts
Wide(n) == <<n \div HalfMod, n % HalfMod>>

\* 1 << (2 * k), both operands C ints.  The result is defined while it fits
\* the int; a count of IntBits or more is undefined behaviour: a shift
\* instruction that masks its count gives 1 << (count % IntBits), one that does
\* not, or a folded constant, gives 0.
IntShiftLeftOne(k) ==
  IF 2 * k < IntBits
  THEN {Wide(2^(2 * k))}
  ELSE {Wide(0), Wide(2^((2 * k) % IntBits))}

InitKmerSpec ==
  /\ op = "CKmerSpec"
  /\ pc = "cinit"
  /\ NoJaccard
  /\ NoBatch
  /\ arg_k \in 1..CoordsMaxK
  /\ arg_bytes \in PrefixInputs
  /\ arg_index = NoIndex
  /\ res_bytes = NoBytes /\ res_index = NoIndex /\ exc = <<>>
  /\ cls = <<>>
  /\ kspec = <<>>

\* __cinit__(self, int k, bytes prefix)
Cinit ==
  /\ op = "CKmerSpec" /\ pc = "cinit"
  /\ \E shifted \in IntShiftLeftOne(arg_k) :
       kspec' = [k |-> arg_k,
                 prefix |-> arg_bytes,
                 prefix_len |-> Len(arg_bytes),
                 idx_len |-> shifted]
  /\ pc' = "built"
  /\ UNCHANGED <<op, cls, arg_bytes, arg_index, arg_k, res_bytes, res_index, exc>>
  /\ UNCHANGED jvars
  /\ UNCHANGED bvars

\* cdef readonly: an attribute can be read from Python, never assigned.
GetAttr ==
  /\ op = "CKmerSpec" /\ pc \in {"built", "read"}
  /\ \E name \in {"k", "prefix", "prefix_len", "idx_len"} :
       /\ exc' = name
       /\ res_index' = CASE name = "k" -> Wide(kspec.k)
                         [] name = "prefix_len" -> Wide(kspec.prefix_len)
                         [] name = "idx_len" -> kspec.idx_len
                         [] OTHER -> NoIndex
       /\ res_bytes' = IF name = "prefix" THEN kspec.prefix ELSE NoBytes
  /\ pc' = "read"
  /\ UNCHANGED <<op, cls, kspec, arg_bytes, arg_index, arg_k>>
  /\ UNCHANGED jvars
  /\ UNCHANGED bvars

NextKmerSpec == Cinit \/ GetAttr

SpecKmerSpec == InitKmerSpec /\ [][NextKmerSpec]_vars

\* ------------------------------------------------------------------ claims
JaccardDone == op = "jaccard" /\ pc = "done"

LoopFinished == op = "jaccard" /\ pc \in {"ret", "done"}

BatchDone == op = "batch" /\ pc = "done"

SetA == Range(coords1)

SetB == Range(coords2)

Inter == (Len(coords1) + Len(coords2)) - cur.u

\* C1: when the merge of two strictly increasing sequences finishes, u is
\* the size of the union of the two sets and N + M - u the size of their
\* intersection, and the returned score is the ratio |A n B| / |A u B|;
\* [1,3,5] against [3,5,7] gives numerator 2 and denominator 4.
C1_UnionAndIntersection ==
  /\ LoopFinished =>
       /\ cur.u = Cardinality(SetA \cup SetB)
       /\ Inter = Cardinality(SetA \cap SetB)
  /\ (JaccardDone /\ cur.u > 0) =>
       /\ score[2] > 0
       /\ score[1] * Cardinality(SetA \cup SetB)
            = score[2] * Cardinality(SetA \cap SetB)
  /\ (LoopFinished /\ coords1 = <<1, 3, 5>> /\ coords2 = <<3, 5, 7>>) =>
       (Inter = 2 /\ cur.u = 4)

C1_Witness ==
  /\ JaccardDone
  /\ coords1 = <<1, 3, 5>> /\ coords2 = <<3, 5, 7>>
  /\ cur.u = 4 /\ score = <<1, 2>>

MemberSlice(i) == Slice(ref_coords, ref_bounds[i + 1], ref_bounds[i + 2])

\* C2: after jaccard_coords_col returns, out[i] is the Jaccard score of the
\* query against the slice ref_coords[ref_bounds[i]:ref_bounds[i+1]] for
\* every member i, whatever the interleaving of the threads and whichever
\* thread the dynamic schedule gave each member to.
C2_BatchConsistency ==
  BatchDone =>
    /\ Len(out) = Len(ref_bounds) - 1
    /\ \A i \in 0..(Len(ref_bounds) - 2) :
         out[i + 1] = c_jaccard_coords(query, MemberSlice(i))

C2_Witness ==
  /\ BatchDone
  /\ Len(out) = 2
  /\ out[1] # out[2]
  /\ out[1] # ZeroScore /\ out[2] # ZeroScore
  /\ wi[1] # wi[2]
  /\ begin[1] # begin[2]

\* C3: with both inputs empty (u = 0) the kernel returns the score 0 and no
\* division by zero is ever performed, in the pairwise call and for an
\* empty member of a batch scored against an empty query.
C3_EmptyUnionIsZero ==
  /\ score # ZeroDivision
  /\ \A p \in 1..Len(out) : out[p] # ZeroDivision
  /\ (JaccardDone /\ coords1 = <<>> /\ coords2 = <<>>) =>
       (cur.u = 0 /\ score = ZeroScore)
  /\ (BatchDone /\ query = <<>>) =>
       \A i \in 0..(Len(ref_bounds) - 2) :
         (ref_bounds[i + 1] = ref_bounds[i + 2]) => out[i + 1] = ZeroScore

C3_Witness ==
  /\ BatchDone
  /\ query = <<>>
  /\ Len(out) >= 2
  /\ \E i \in 0..(Len(ref_bounds) - 2) :
       ref_bounds[i + 1] = ref_bounds[i + 2] /\ out[i + 1] = ZeroScore
  /\ \E i \in 0..(Len(ref_bounds) - 2) : ref_bounds[i + 1] < ref_bounds[i + 2]

\* C9: the result of the merge lies in [0, 1], that is 0 <= N + M - u <= u,
\* and a nonempty sequence compared with itself scores 1
\* (N + M - u = u = N).
C9_ScoreBounds ==
  /\ LoopFinished => (0 <= Inter /\ Inter <= cur.u)
  /\ JaccardDone => (0 <= score[1] /\ score[1] <= score[2])
  /\ (LoopFinished /\ coords1 = coords2 /\ Len(coords1) > 0) =>
       (Inter = cur.u /\ cur.u = Len(coords1))
  /\ (JaccardDone /\ coords1 = coords2 /\ Len(coords1) > 0) => score = <<1, 1>>

C9_Witness ==
  /\ JaccardDone
  /\ coords1 = coords2 /\ Len(coords1) >= 2
  /\ score = <<1, 1>>

\* C10: the kernel is symmetric: the union count and the score of
\* (coords1, coords2) equal those of (coords2, coords1).
C10_Symmetry ==
  /\ LoopFinished =>
       cur.u = Remainder(coords2, coords1,
                         MergeLoop(coords2, coords1, Cursor0)).u
  /\ JaccardDone => score = c_jaccard_coords(coords2, coords1)

C10_Witness ==
  /\ JaccardDone
  /\ Len(coords1) < Len(coords2)
  /\ SetA \cap SetB # {}
  /\ SetA \ SetB # {}
  /\ score[1] > 0 /\ score[1] < score[2]

\* -------------------------------------------------------- claims: codec
IsValidKmer(b) == \A p \in 1..Len(b) : b[p] \in Valid8

FirstInvalid(b) ==
  CHOOSE p \in 1..Len(b) :
    b[p] \notin Valid8 /\ \A q \in 1..(p - 1) : b[q] \in Valid8

\* C4: kmer_to_index accepts exactly the bytes A, C, G, T, a, c, g, t: a
\* byte string with a byte outside this set raises ValueError carrying the
\* first such byte as it stands in the input (its C char value, not the
\* upper-cased one) and returns no index; a string of accepted bytes
\* raises nothing.
C4_InvalidNucleotide ==
  (op = "kmer_to_index" /\ pc # "call") =>
    IF IsValidKmer(arg_bytes)
    THEN pc # "raised" /\ exc = <<>> /\ res_index # NoIndex
    ELSE /\ pc = "raised"
         /\ Len(exc) = 1
         /\ exc[1] % 256 = arg_bytes[FirstInvalid(arg_bytes)]
         /\ (arg_bytes[FirstInvalid(arg_bytes)] < 128 =>
               exc[1] = arg_bytes[FirstInvalid(arg_bytes)])
         /\ res_index = NoIndex
         /\ res_bytes = NoBytes

C4_Witness ==
  /\ op = "kmer_to_index" /\ pc = "raised"
  /\ arg_bytes = <<65, 67, 71, 78>>
  /\ exc = <<78>>

RECURSIVE ShiftOut(_, _)
ShiftOut(x, k) == IF k = 0 THEN x ELSE ShiftOut(Div4(x), k - 1)

\* index < 4^k
IndexInRange(x, k) == ShiftOut(x, k) = Zero32

\* C5: for 1 <= k <= 16 and 0 <= i < 4^k, index_to_kmer(i, k) raises
\* nothing and is a string of exactly k characters of {A,C,G,T}, and
\* kmer_to_index of it is i.
C5_IndexRoundTrip ==
  (/\ op = "index_to_kmer"
   /\ 1 <= arg_k /\ arg_k <= CoordsMaxK
   /\ IndexInRange(arg_index, arg_k)) =>
    /\ pc # "raised" /\ exc = <<>>
    /\ pc \in {"returned", "round"} =>
         /\ Len(res_bytes) = arg_k
         /\ \A p \in 1..Len(res_bytes) : res_bytes[p] \in {65, 67, 71, 84}
    /\ pc = "round" => res_index = arg_index

C5_Witness ==
  /\ op = "index_to_kmer" /\ pc = "round"
  /\ arg_k = CoordsMaxK
  /\ arg_index = <<32768, 27>>
  /\ res_index = arg_index
  /\ res_bytes[1] = 71 /\ res_bytes[CoordsMaxK] = 84

Uppercase(b) == [p \in 1..Len(b) |-> IF b[p] >= 97 /\ b[p] <= 122 THEN b[p] - 32 ELSE b[p]]

\* The 2-bit code of the spec's data model: A=00, C=01, G=10, T=11.
TwoBitCode(c) == CASE c = 65 -> 0 [] c = 67 -> 1 [] c = 71 -> 2 [] c = 84 -> 3

\* C6: for a string s over {A,C,G,T,a,c,g,t} of length 1..16,
\* index_to_kmer(kmer_to_index(s), len(s)) is uppercase(s), kmer_to_index(s)
\* equals kmer_to_index(uppercase(s)), and the first nucleotide of s holds
\* the most significant 2 bits of the index.
C6_KmerRoundTrip ==
  (/\ op = "kmer_to_index"
   /\ pc # "call"
   /\ IsValidKmer(arg_bytes)
   /\ 1 <= Len(arg_bytes) /\ Len(arg_bytes) <= CoordsMaxK) =>
    /\ pc # "raised"
    /\ res_index = c_kmer_to_index(Uppercase(arg_bytes), Len(arg_bytes)).idx
    /\ ShiftOut(res_index, Len(arg_bytes) - 1)
         = <<0, TwoBitCode(Uppercase(arg_bytes)[1])>>
    /\ pc = "round" => res_bytes = Uppercase(arg_bytes)

C6_Witness ==
  /\ op = "kmer_to_index" /\ pc = "round"
  /\ Len(arg_bytes) = CoordsMaxK
  /\ arg_bytes[1] = 99 /\ arg_bytes[2] = 116
  /\ res_index = <<32767, 65535>>
  /\ res_bytes = Uppercase(arg_bytes)
  /\ res_bytes # arg_bytes

\* C7: reverse_complement is an involution on all byte strings:
\* reverse_complement(reverse_complement(s)) = s for every byte string s.
C7_Involution ==
  (op = "reverse_complement" /\ pc = "round") => res_bytes = arg_bytes

\* The complement of the spec: A<->T, C<->G, a<->t, c<->g, others unchanged.
Complement(b) ==
  CASE b = 65 -> 84 [] b = 84 -> 65 [] b = 67 -> 71 [] b = 71 -> 67
    [] b = 97 -> 116 [] b = 116 -> 97 [] b = 99 -> 103 [] b = 103 -> 99
    [] OTHER -> b

\* C8: reverse_complement(seq) has the length l of seq, and its byte at
\* position l-1-i is complement(seq[i]) for every i in 0..l-1.
C8_ReverseComplement ==
  (op = "reverse_complement" /\ pc = "returned") =>
    /\ Len(res_bytes) = Len(arg_bytes)
    /\ \A i \in 0..(Len(arg_bytes) - 1) :
         res_bytes[((Len(arg_bytes) - 1) - i) + 1] = Complement(arg_bytes[i + 1])

\* ------------------------------------------------------ claims: dispatch
\* C11: a call whose two coordinate arrays have different element types
\* (16-bit against 32-bit, signed against unsigned, ...) is rejected with an
\* error before the merge loop executes any step, and no score is produced.
C11_WidthMismatchRejected ==
  (op = "jaccard" /\ dtype1 # dtype2 /\ pc # "dispatch") =>
    (pc = "typeerror" /\ cur = Cursor0 /\ score = Unwritten)

\* ---------------------------------------------------- claims: classifier
\* The nearest neighbour: a member of maximal score, the earliest such.
Nearest ==
  CHOOSE b \in 1..Len(cls.scores) :
    /\ \A m \in 1..Len(cls.scores) :
         cls.scores[b][1] * cls.scores[m][2] >= cls.scores[m][1] * cls.scores[b][2]
    /\ \A m \in 1..(b - 1) :
         cls.scores[m][1] * cls.scores[b][2] < cls.scores[b][1] * cls.scores[m][2]

MeetsThreshold(sc, th) == sc[1] * th[2] >= th[1] * sc[2]

\* C12: classify takes the nearest neighbour (maximal score, earliest in
\* reference order among ties) and applies its (genus, species) threshold if
\* that key is in the table, else its genus threshold if that key is in the
\* table, else the outcome is NoThresholdAvailable; a call is emitted iff the
\* best score >= the selected threshold, at species level when the species
\* threshold was selected and at genus level otherwise; else the outcome is
\* NoConfidentCall; a repeated invocation gives the same outcome.
C12_ClassifyRule ==
  (op = "classify" /\ pc = "done") =>
    LET sc == cls.scores[Nearest]
        tx == cls.taxa[Nearest]
        sp == cls.species_thr[tx]
        ge == cls.genus_thr[tx[1]]
        o == cls.outcome
    IN /\ cls.best = Nearest
       /\ IF sp # Absent
          THEN IF MeetsThreshold(sc, sp)
               THEN o.kind = "call" /\ o.level = "species"
               ELSE o.kind = "NoConfidentCall"
          ELSE IF ge # Absent
               THEN IF MeetsThreshold(sc, ge)
                    THEN o.kind = "call" /\ o.level = "genus"
                    ELSE o.kind = "NoConfidentCall"
               ELSE o.kind = "NoThresholdAvailable"
       /\ o.kind = "call" => (o.score = sc /\ o.identity = tx)
       /\ cls.calls = 2 => cls.outcome = cls.first

C12_Witness ==
  /\ op = "classify" /\ pc = "done"
  /\ cls.calls = 2
  /\ Len(cls.scores) = 2
  /\ cls.scores[1] = cls.scores[2]
  /\ cls.taxa[1] = <<"A", "x">> /\ cls.taxa[2] = <<"B", "x">>
  /\ cls.species_thr[<<"A", "x">>] = Absent
  /\ cls.species_thr[<<"B", "x">>] # Absent
  /\ cls.outcome.kind = "call" /\ cls.outcome.level = "genus"
  /\ cls.outcome.identity = <<"A", "x">>

\* ------------------------------------------------- claims: parallel batch
NumMembers == Len(ref_bounds) - 1

Holds(w) == wpc[w] # "idle"

\* Where the threads stand after a step (before the first one no thread has
\* started): every iteration in hand is in
\* 0..N-1, is in the hands of one thread only, is no longer to be handed out,
\* and its slot (like the slot of every iteration not yet handed out) has not
\* been written; a thread about to score holds the bounds of its own member.
C13_Disjoint ==
  (op = "batch" /\ pc = "parallel") =>
    /\ DOMAIN out = 1..NumMembers
    /\ \A it \in todo : it \in 0..(NumMembers - 1) /\ out[OutSlot(it)] = Unwritten
    /\ \A w \in Workers :
         Holds(w) =>
           /\ wi[w] \in 0..(NumMembers - 1)
           /\ wi[w] \notin todo
           /\ out[OutSlot(wi[w])] = Unwritten
           /\ \A v \in Workers \ {w} : Holds(v) => wi[v] # wi[w]
           /\ wpc[w] = "score" =>
                (begin[w] = ref_bounds[wi[w] + 1] /\ end[w] = ref_bounds[wi[w] + 2])

\* What one step does: the inputs stay as they are; the output keeps its N
\* slots; a slot changes only from unwritten to the score of its own member,
\* by the one thread that holds that member and finishes it in this step; a
\* thread that does not move keeps its i, begin and end.
C13_Step ==
  /\ query' = query /\ ref_coords' = ref_coords /\ ref_bounds' = ref_bounds
  /\ (op = "batch" /\ pc = "parallel") =>
       /\ DOMAIN out' = DOMAIN out
       /\ \A p \in DOMAIN out :
            out'[p] # out[p] =>
              /\ out[p] = Unwritten
              /\ \E w \in Workers :
                   /\ wpc[w] = "score" /\ wpc'[w] = "idle"
                   /\ OutSlot(wi[w]) = p
                   /\ out'[p] = c_jaccard_coords(query, MemberSlice(wi[w]))
                   /\ \A v \in Workers \ {w} : wpc'[v] = wpc[v]
       /\ \A w \in Workers :
            (wpc[w] = "score" /\ wpc'[w] = "idle") =>
              out'[OutSlot(wi[w])] # Unwritten
       /\ \A v \in Workers :
            wpc'[v] = wpc[v] =>
              (wi'[v] = wi[v] /\ begin'[v] = begin[v] /\ end'[v] = end[v])
       /\ pc' = "done" => \A p \in DOMAIN out : out[p] # Unwritten

\* C13: during jaccard_coords_col over N members, in every interleaving of
\* the threads, each slot out[i], 0 <= i < N, is written exactly once and by
\* exactly one thread, no slot outside 0..N-1 is written, a thread's begin, end
\* and i are touched by that thread only, and query, ref_coords and ref_bounds
\* are unchanged from call to return.
C13_DisjointSlots == [][C13_Disjoint' /\ C13_Step]_vars

C13_Witness ==
  /\ op = "batch" /\ pc = "parallel"
  /\ wpc[1] = "score" /\ wpc[2] = "score"
  /\ wi[1] = 1 /\ wi[2] = 0
  /\ begin[1] # begin[2]
  /\ query # <<>>

\* ----------------------------------------------------- claims: termination
\* One iteration of the merge loop moves i or j forward, and the cursors and
\* the number of iterations made so far (u, inside the loop) stay in range.
C14_Progress ==
  /\ (op = "jaccard" /\ pc = "loop" /\ cur' # cur) =>
       /\ cur'.i >= cur.i /\ cur'.j >= cur.j
       /\ pc' = "loop" => cur'.i + cur'.j > cur.i + cur.j
  /\ (op = "jaccard" /\ pc' = "loop") =>
       /\ cur'.i <= Len(coords1) /\ cur'.j <= Len(coords2)
       /\ cur'.u <= cur'.i + cur'.j
       /\ cur'.u <= Len(coords1) + Len(coords2)
  /\ (op = "batch" /\ pc' = "done") =>
       /\ Len(out') = NumMembers
       /\ \A p \in 1..NumMembers : out'[p] # Unwritten

C14_Returned ==
  /\ pc = "done"
  /\ op = "batch" => \A p \in 1..NumMembers : out[p] # Unwritten
  /\ op = "jaccard" => score # Unwritten

\* C14: every call runs to completion.  Each iteration of the merge loop
\* advances at least one of the cursors i, j, so the loop ends after at most
\* N + M iterations with i <= N and j <= M; when every thread keeps running,
\* every member is eventually scored and jaccard_coords_col returns with all
\* N slots written; no reachable state blocks the call forever.
C14_RunsToCompletion == [][C14_Progress]_vars /\ <>[]C14_Returned

C14_Witness ==
  /\ op = "batch" /\ pc = "done"
  /\ NumMembers = 2
  /\ query # <<>>
  /\ out[1] = ZeroScore /\ out[2] = <<1, 1>>

\* ------------------------------------------------------ claims: CKmerSpec
\* 4^k in two parts, by repeated multiplication.
RECURSIVE FourToThe(_)
FourToThe(k) ==
  IF k = 0
  THEN <<0, 1>>
  ELSE LET p == FourToThe(k - 1)
       IN <<(p[1] * 4) + ((p[2] * 4) \div HalfMod), (p[2] * 4) % HalfMod>>

\* C15: for every k with 1 <= k <= 16 and every prefix, the CKmerSpec built
\* from (k, prefix) has idx_len = 4^k and prefix_len = len(prefix), and its
\* fields stay what the constructor made them.
C15_IndexSpaceSize ==
  (op = "CKmerSpec" /\ pc # "cinit" /\ arg_k \in 1..CoordsMaxK) =>
    /\ kspec.k = arg_k
    /\ kspec.prefix = arg_bytes
    /\ kspec.prefix_len = Len(arg_bytes)
    /\ kspec.idx_len = FourToThe(arg_k)

====
